---- MODULE Spec2Model ----
(***************************************************************************)
(* Model of the request handlers of src/src/handlers.rs: the non-streaming *)
(* composer `chat` and the streaming orchestrator `chat_stream`, whose     *)
(* spawned producer task publishes StreamEvents through a bounded          *)
(* tokio::sync::mpsc channel to the response stream (the consumer).        *)
(*                                                                         *)
(* Provider A is the DeepSeek client, Provider B the Gemini client.  Both  *)
(* are external: what they return is an input of the model, fixed in the   *)
(* initial state and consumed item by item.                                *)
(***************************************************************************)
EXTENDS Integers, Sequences, FiniteSets, TLC

VARIABLES
    request,            \* the ApiRequest and its headers
    streamA,            \* items Provider A's incremental stream yields, in order
    streamB,            \* items Provider B's incremental stream yields, in order
    respA,              \* Provider A's answer to its complete operation
    respB,              \* Provider B's answer to its complete operation
    hpc,                \* position of the request handler (chat / chat_stream)
    result,             \* what the handler returned
    pc,                 \* position of the spawned producer task
    posA,               \* number of items taken from Provider A's stream
    posB,               \* number of items taken from Provider B's stream
    cur,                \* the upstream item read and not yet published
    complete_reasoning, \* the accumulator of chat_stream
    deepseek_usage,     \* Option<usage> recorded in the first loop
    gemini_messages,    \* message list handed to Provider B (Option)
    callsA,             \* invocations of Provider A (complete call / stream open)
    callsB,             \* invocations of Provider B (complete call / stream open)
    queue,              \* the mpsc channel's buffer
    rx,                 \* the receiver: "none", "open", "dropped", "ended"
    published,          \* every event handed to tx.send, in order
    lastSend,           \* outcome of the latest send: "none", "ok", "closed"
    received            \* events the consumer took from the channel, in order

vars == << request, streamA, streamB, respA, respB, hpc, result, pc, posA, posB,
           cur, complete_reasoning, deepseek_usage, gemini_messages, callsA,
           callsB, queue, rx, published, lastSend, received >>

(***************************************************************************)
(* Bounds of the model                                                     *)
(***************************************************************************)
MaxLenA == 3
MaxLenB == 3

(***************************************************************************)
(* Program constants                                                       *)
(***************************************************************************)
Capacity == 100
ErrorCode == 500

(***************************************************************************)
(* Option values                                                           *)
(***************************************************************************)
None == [some |-> FALSE]
Some(v) == [some |-> TRUE, val |-> v]

SeqsUpTo(S, n) == UNION { [1..k -> S] : k \in 0..n }

(***************************************************************************)
(* Messages                                                                *)
(***************************************************************************)
Message(role, content) == [role |-> role, content |-> content]

\* request.get_messages_with_system(): the list both handlers start from
MessageLists ==
    { << Message("User", "q") >>,
      << Message("System", "s"), Message("User", "q") >> }

(***************************************************************************)
(* Provider A (DeepSeek): usage records, stream chunks, complete responses *)
(***************************************************************************)
UsageA(p, c, r, h, t) ==
    [prompt_tokens |-> p, completion_tokens |-> c, reasoning_tokens |-> r,
     cached_tokens |-> h, total_tokens |-> t]

UA1 == UsageA(10, 4, 3, 2, 14)
UA2 == UsageA(20, 8, 5, 0, 28)

\* a chunk: Ok(response) with response.choices.first() and response.usage
ChunkA(choice, reasoning, usage) ==
    [ok |-> TRUE, choice |-> choice, reasoning_content |-> reasoning, usage |-> usage]
ErrA(m) == [ok |-> FALSE, message |-> m]

ChunksA ==
    { ChunkA(TRUE, Some("a"), None),
      ChunkA(TRUE, Some("b"), Some(UA1)),
      ChunkA(TRUE, Some(""), None),
      ChunkA(TRUE, None, Some(UA2)),
      ChunkA(FALSE, None, Some(UA2)),
      ErrA("ea") }

\* a complete response of Provider A: Ok(choices.first(), usage) or Err
CompleteA(choice, reasoning, usage) ==
    [ok |-> TRUE, choice |-> choice, reasoning_content |-> reasoning, usage |-> usage]

ResponsesA ==
    { CompleteA(TRUE, Some("r"), UA1),
      CompleteA(TRUE, Some(""), UA1),
      CompleteA(TRUE, None, UA1),
      CompleteA(FALSE, None, UA2),
      ErrA("ea") }

(***************************************************************************)
(* Provider B (Gemini): content blocks, usage, native stream events        *)
(***************************************************************************)
GeminiBlock(t, x) == [content_type |-> t, text |-> x]

UsageB(p, c, t) == [prompt_tokens |-> p, completion_tokens |-> c, total_tokens |-> t]
UB1 == UsageB(7, 5, 12)

MessageStart(blocks) == [ok |-> TRUE, kind |-> "MessageStart", content |-> blocks]
ContentBlockDelta(t, x) ==
    [ok |-> TRUE, kind |-> "ContentBlockDelta", delta_type |-> t, text |-> x]
MessageDelta(usage) == [ok |-> TRUE, kind |-> "MessageDelta", usage |-> usage]
OtherEvent == [ok |-> TRUE, kind |-> "Ping"]
ErrB(m) == [ok |-> FALSE, message |-> m]

EventsB ==
    { MessageStart(<< >>),
      MessageStart(<< GeminiBlock("text", "x"), GeminiBlock("tool_use", "y") >>),
      ContentBlockDelta("text_delta", "z"),
      MessageDelta(Some([usage |-> Some(UB1)])),
      MessageDelta(None),
      OtherEvent,
      ErrB("eb") }

CompleteB(blocks, usage) == [ok |-> TRUE, content |-> blocks, usage |-> usage]

ResponsesB ==
    { CompleteB(<< GeminiBlock("text", "x"), GeminiBlock("tool_use", "y") >>, Some(UB1)),
      CompleteB(<< >>, None),
      ErrB("eb") }

(***************************************************************************)
(* Requests                                                                *)
(***************************************************************************)
HeaderStates == { "ok", "missing", "malformed" }

Requests ==
    [ stream : BOOLEAN,
      system_prompt_valid : BOOLEAN,        \* request.validate_system_prompt()
      deepseek_header : HeaderStates,       \* X-DeepSeek-API-Token
      gemini_header : HeaderStates,         \* X-Gemini-API-Token
      messages : MessageLists ]

ValidRequest(r) ==
    /\ r.system_prompt_valid
    /\ r.deepseek_header = "ok"
    /\ r.gemini_header = "ok"

(***************************************************************************)
(* Canonical output: ContentBlock, StreamEvent (src/src/models/response.rs)*)
(***************************************************************************)
ContentBlock(t, x) == [type |-> t, text |-> x]

\* ContentBlock::text
ContentBlock_text(x) == ContentBlock("text", x)

\* variant: the block's type is replaced by "text"
ContentBlock_from_gemini_as_text(block) == ContentBlock("text", block.text)

\* ContentBlock::from_gemini
ContentBlock_from_gemini(block) == ContentBlock(block.content_type, block.text)

\* blocks.into_iter().map(ContentBlock::from_gemini)
from_gemini_blocks(blocks) == [i \in 1..Len(blocks) |-> ContentBlock_from_gemini(blocks[i])]

StartEvent == [type |-> "start"]
ContentEvent(blocks) == [type |-> "content", content |-> blocks]
UsageEvent(u) == [type |-> "usage", usage |-> u]
DoneEvent == [type |-> "done"]
ErrorEvent(m, c) == [type |-> "error", message |-> m, code |-> c]

\* format!("<thinking>\n{}\n</thinking>", reasoning)
thinking_content(reasoning) == "<thinking>\n" \o reasoning \o "\n</thinking>"

(***************************************************************************)
(* Costs: calculate_deepseek_cost, calculate_gemini_cost, format_cost      *)
(*                                                                         *)
(* Token counts are u32 in the program; here they are unsigned integers of *)
(* TokenBits bits, so that a wrapped difference stays inside the integers  *)
(* the checker can represent.  A price is an integer number of thousandths *)
(* of a dollar per million tokens, so tokens * price is a cost in          *)
(* billionths of a dollar and the arithmetic is exact.                     *)
(***************************************************************************)
TokenBits == 16
Modulus == 2 ^ TokenBits
MaxToken == Modulus - 1

\* config.pricing: the externally supplied price table
Pricing ==
    [ deepseek |-> [ input_cache_hit_price  |-> 140,
                     input_cache_miss_price |-> 550,
                     output_price           |-> 2190 ],
      gemini   |-> [ input_price  |-> 3000,
                     output_price |-> 15000 ] ]

\* billionths of a dollar in one thousandth of a dollar
NanoPerMilli == 1000000

\* a - b on unsigned integers: when a < b the build with overflow checks
\* panics and the build without them wraps
u32_sub(a, b) ==
    IF a >= b
    THEN { [panic |-> FALSE, value |-> a - b] }
    ELSE { [panic |-> TRUE, value |-> 0],
           [panic |-> FALSE, value |-> (a - b + Modulus) % Modulus] }

\* calculate_deepseek_cost: the outcomes the build can produce
calculate_deepseek_cost(input_tokens, output_tokens, reasoning_tokens, cached_tokens) ==
    { [ panic |-> miss.panic,
        cost  |-> IF miss.panic THEN 0
                  ELSE cached_tokens * Pricing.deepseek.input_cache_hit_price
                       + miss.value * Pricing.deepseek.input_cache_miss_price
                       + output_tokens * Pricing.deepseek.output_price ]
      : miss \in u32_sub(input_tokens, cached_tokens) }

\* calculate_gemini_cost
calculate_gemini_cost(input_tokens, output_tokens) ==
    input_tokens * Pricing.gemini.input_price
    + output_tokens * Pricing.gemini.output_price

\* the decimal digits of a natural number, most significant first
DigitChar(d) == << "0", "1", "2", "3", "4", "5", "6", "7", "8", "9" >>[d + 1]

RECURSIVE Decimal(_)
Decimal(n) == IF n < 10 THEN << DigitChar(n) >>
              ELSE Decimal(n \div 10) \o << DigitChar(n % 10) >>

\* the cost rounded to thousandths of a dollar
Thousandths(cost) == (cost + NanoPerMilli \div 2) \div NanoPerMilli

\* format_cost: format!("${:.3}", cost), as a sequence of characters
format_cost(cost) ==
    << "$" >> \o Decimal(Thousandths(cost) \div 1000) \o << "." >>
    \o << DigitChar((Thousandths(cost) \div 100) % 10),
          DigitChar((Thousandths(cost) \div 10) % 10),
          DigitChar(Thousandths(cost) % 10) >>

\* the literal "$0.00"
ZeroCostLiteral == << "$", "0", ".", "0", "0" >>

(***************************************************************************)
(* Usage records of the response                                           *)
(***************************************************************************)
\* GeminiUsage::from_gemini: absent usage reads as zero, the cost is a placeholder
GeminiUsage_from_gemini(response) ==
    [ input_tokens  |-> IF response.usage.some THEN response.usage.val.prompt_tokens ELSE 0,
      output_tokens |-> IF response.usage.some THEN response.usage.val.completion_tokens ELSE 0,
      total_tokens  |-> IF response.usage.some THEN response.usage.val.total_tokens ELSE 0,
      total_cost    |-> ZeroCostLiteral ]

\* the GeminiUsage both handlers place in the CombinedUsage
GeminiUsage_with_cost(gemini_usage, gemini_cost) ==
    [ input_tokens  |-> gemini_usage.input_tokens,
      output_tokens |-> gemini_usage.output_tokens,
      total_tokens  |-> gemini_usage.total_tokens,
      total_cost    |-> format_cost(gemini_cost) ]

\* DeepSeekUsage built from a provider usage record and its cost
DeepSeekUsage_of(usage, cost) ==
    [ input_tokens        |-> usage.prompt_tokens,
      output_tokens       |-> usage.completion_tokens,
      reasoning_tokens    |-> usage.reasoning_tokens,
      cached_input_tokens |-> usage.cached_tokens,
      total_tokens        |-> usage.total_tokens,
      total_cost          |-> format_cost(cost) ]

\* the all-zero record chat_stream uses when no usage was recorded
DeepSeekUsage_zero ==
    [ input_tokens |-> 0, output_tokens |-> 0, reasoning_tokens |-> 0,
      cached_input_tokens |-> 0, total_tokens |-> 0, total_cost |-> ZeroCostLiteral ]

\* the cost of a provider usage record: the outcomes of calculate_deepseek_cost
deepseek_cost_of(usage) ==
    calculate_deepseek_cost(usage.prompt_tokens, usage.completion_tokens,
                            usage.reasoning_tokens, usage.cached_tokens)

\* CombinedUsage { total_cost, deepseek_usage, gemini_usage }
CombinedUsage(total, deepseek, gemini) ==
    [ total_cost |-> format_cost(total), deepseek_usage |-> deepseek,
      gemini_usage |-> gemini ]

\* the Usage payload chat_stream builds on a MessageDelta carrying usage: one
\* outcome per outcome of the cost computation
stream_combined_usage(ds_usage, usage) ==
    LET gemini_usage == GeminiUsage_from_gemini(usage)
        gemini_cost  == calculate_gemini_cost(gemini_usage.input_tokens,
                                              gemini_usage.output_tokens)
        gemini       == GeminiUsage_with_cost(gemini_usage, gemini_cost)
    IN  IF ds_usage.some
        THEN { [ panic |-> c.panic,
                 usage |-> CombinedUsage(c.cost + gemini_cost,
                                         DeepSeekUsage_of(ds_usage.val, c.cost), gemini) ]
               : c \in deepseek_cost_of(ds_usage.val) }
        ELSE { [ panic |-> FALSE,
                 usage |-> CombinedUsage(0 + gemini_cost, DeepSeekUsage_zero, gemini) ] }

\* the CombinedUsage chat builds; its total adds `anthropic_cost`
chat_combined_usage(deepseek_response, gemini_response, anthropic_cost) ==
    LET gemini_usage == GeminiUsage_from_gemini(gemini_response)
        gemini_cost  == calculate_gemini_cost(gemini_usage.input_tokens,
                                              gemini_usage.output_tokens)
    IN  { [ panic |-> c.panic,
            usage |-> CombinedUsage(c.cost + anthropic_cost,
                                    DeepSeekUsage_of(deepseek_response.usage, c.cost),
                                    GeminiUsage_with_cost(gemini_usage, gemini_cost)) ]
          : c \in deepseek_cost_of(deepseek_response.usage) }

(***************************************************************************)
(* Validation                                                              *)
(***************************************************************************)
Ok == [ok |-> TRUE]
Err(e) == [ok |-> FALSE, error |-> e]

InvalidSystemPrompt == [type |-> "InvalidSystemPrompt"]
MissingHeader(h) == [type |-> "MissingHeader", header |-> h]
BadRequest(m) == [type |-> "BadRequest", message |-> m]
DeepSeekError(m, t) == [type |-> "DeepSeekError", message |-> m, type_ |-> t]
UpstreamError(p, m) == [type |-> "Upstream", provider |-> p, message |-> m]

extract_api_tokens(r) ==
    IF r.deepseek_header = "missing" THEN Err(MissingHeader("X-DeepSeek-API-Token"))
    ELSE IF r.deepseek_header = "malformed" THEN Err(BadRequest("Invalid DeepSeek API token"))
    ELSE IF r.gemini_header = "missing" THEN Err(MissingHeader("X-Gemini-API-Token"))
    ELSE IF r.gemini_header = "malformed" THEN Err(BadRequest("Invalid Gemini API token"))
    ELSE Ok

\* lines 188-194 of chat
chat_validate(r) ==
    IF ~r.system_prompt_valid THEN Err(InvalidSystemPrompt) ELSE extract_api_tokens(r)

\* variant: the headers are examined before the system prompt
chat_stream_validate_headers_first(r) ==
    IF ~extract_api_tokens(r).ok THEN extract_api_tokens(r)
    ELSE IF ~r.system_prompt_valid THEN Err(InvalidSystemPrompt) ELSE Ok

\* lines 322-328 of chat_stream
chat_stream_validate(r) ==
    IF ~r.system_prompt_valid THEN Err(InvalidSystemPrompt) ELSE extract_api_tokens(r)

(***************************************************************************)
(* Initial states: a request and what the providers will answer to it      *)
(***************************************************************************)
NoResponse == [ok |-> FALSE, message |-> "unused"]

\* fixed provider scripts, paired with the enumerated ones of the other provider
FixedStreamsA ==
    { << ChunkA(TRUE, Some("a"), Some(UA1)), ChunkA(TRUE, None, None) >>,
      << >> }
FixedStreamsB ==
    { << ContentBlockDelta("text_delta", "z"), MessageDelta(Some([usage |-> Some(UB1)])) >>,
      << >> }

\* Provider B streams with deltas of two types
DeltaStreamsB ==
    { << ContentBlockDelta("text_delta", "z"), ContentBlockDelta("input_json_delta", "w"),
         MessageDelta(Some([usage |-> Some(UB1)])) >>,
      << ContentBlockDelta("input_json_delta", "w"),
         MessageStart(<< GeminiBlock("text", "x") >>),
         ContentBlockDelta("text_delta", "z") >> }

InitTask ==
    /\ hpc = "entry"
    /\ result = None
    /\ pc = "idle"
    /\ posA = 0
    /\ posB = 0
    /\ cur = None
    /\ complete_reasoning = ""
    /\ deepseek_usage = None
    /\ gemini_messages = None
    /\ callsA = 0
    /\ callsB = 0
    /\ queue = << >>
    /\ rx = "none"
    /\ published = << >>
    /\ lastSend = "none"
    /\ received = << >>

\* a streaming request that passes validation
InitStreaming ==
    /\ request \in { r \in Requests : r.stream /\ ValidRequest(r) }
    /\ \/ /\ request.messages = << Message("User", "q") >>
          /\ \/ streamA \in SeqsUpTo(ChunksA, MaxLenA) /\ streamB \in FixedStreamsB
             \/ streamA \in FixedStreamsA /\ streamB \in SeqsUpTo(EventsB, MaxLenB)
             \/ streamA \in FixedStreamsA /\ streamB \in DeltaStreamsB
       \/ /\ request.messages # << Message("User", "q") >>
          /\ streamA \in FixedStreamsA
          /\ streamB \in FixedStreamsB
    /\ respA = NoResponse
    /\ respB = NoResponse

\* a non-streaming request that passes validation
InitComplete ==
    /\ request \in { r \in Requests : ~r.stream /\ ValidRequest(r) }
    /\ streamA = << >>
    /\ streamB = << >>
    /\ respA \in ResponsesA
    /\ respB \in ResponsesB

\* a request that fails validation, on either path
InitInvalid ==
    /\ request \in { r \in Requests : ~ValidRequest(r)
                                      /\ r.messages = << Message("User", "q") >> }
    /\ streamA = << ChunkA(TRUE, Some("a"), Some(UA1)) >>
    /\ streamB = << ContentBlockDelta("text_delta", "z") >>
    /\ respA = CompleteA(TRUE, Some("r"), UA1)
    /\ respB = CompleteB(<< GeminiBlock("text", "x") >>, Some(UB1))

Init ==
    /\ InitTask
    /\ \/ InitStreaming
       \/ InitComplete
       \/ InitInvalid

(***************************************************************************)
(* The channel: tokio::sync::mpsc::channel(100), one sender, one receiver  *)
(***************************************************************************)
\* variant: the send never waits for a free slot
CanSend_unbounded == TRUE

\* variant: a send waits for a free slot also when the receiver is gone
CanSend_open_only == rx = "open" /\ Len(queue) < Capacity

\* send().await resolves when a slot is free or the receiver is gone
CanSend == rx # "open" \/ Len(queue) < Capacity

\* variant: the event is put at the front of the buffer
Enqueue_front(q, ev) == << ev >> \o q

Enqueue(q, ev) == Append(q, ev)

\* `let _ = tx.send(ev).await;` : the outcome is discarded by the caller
Send(ev) ==
    /\ CanSend
    /\ queue' = IF rx = "open" THEN Enqueue(queue, ev) ELSE queue
    /\ published' = Append(published, ev)
    /\ lastSend' = IF rx = "open" THEN "ok" ELSE "closed"

NoSend == UNCHANGED << queue, published, lastSend >>

inputs == << request, streamA, streamB, respA, respB >>
handler == << hpc, result >>

(***************************************************************************)
(* handle_chat -> chat (non-streaming)                                     *)
(***************************************************************************)
\* validation, client construction, and the call of deepseek_client.chat
ChatEntry ==
    /\ hpc = "entry"
    /\ ~request.stream
    /\ IF chat_validate(request).ok
       THEN /\ hpc' = "chat_deepseek"
            /\ callsA' = callsA + 1
            /\ UNCHANGED result
       ELSE /\ hpc' = "responded"
            /\ result' = Some(chat_validate(request))
            /\ UNCHANGED callsA
    /\ UNCHANGED << inputs, pc, posA, posB, cur, complete_reasoning, deepseek_usage,
                    gemini_messages, callsB, queue, rx, published, lastSend, received >>

\* choices.first().and_then(|c| c.message.reasoning_content.as_ref())
chat_reasoning_content(response) ==
    IF response.choice THEN response.reasoning_content ELSE None

\* Provider A's complete call returns: reasoning extraction, call of gemini_client.chat
ChatDeepSeekReturns ==
    /\ hpc = "chat_deepseek"
    /\ IF ~respA.ok
       THEN /\ hpc' = "responded"
            /\ result' = Some(Err(UpstreamError("deepseek", respA.message)))
            /\ UNCHANGED << gemini_messages, callsB >>
       ELSE IF ~chat_reasoning_content(respA).some
       THEN /\ hpc' = "responded"
            /\ result' = Some(Err(DeepSeekError("No reasoning content in response",
                                                "missing_content")))
            /\ UNCHANGED << gemini_messages, callsB >>
       ELSE /\ hpc' = "chat_gemini"
            /\ gemini_messages' =
                 Some(Append(request.messages,
                             Message("Assistant",
                                     thinking_content(chat_reasoning_content(respA).val))))
            /\ callsB' = callsB + 1
            /\ UNCHANGED result
    /\ UNCHANGED << inputs, pc, posA, posB, cur, complete_reasoning, deepseek_usage,
                    callsA, queue, rx, published, lastSend, received >>

\* the ApiResponse of chat (created and the verbose raw responses left out)
chat_response(deepseek_response, gemini_response, combined_usage) ==
    [ content |-> << ContentBlock_text(
                       thinking_content(chat_reasoning_content(deepseek_response).val)) >>
                  \o from_gemini_blocks(gemini_response.content),
      combined_usage |-> combined_usage ]

\* `anthropic_cost` in chat's total is bound to no computation of the handler:
\* any cost may stand for it, Provider B's cost among them
AnthropicCosts ==
    { 0, NanoPerMilli, calculate_gemini_cost(UB1.prompt_tokens, UB1.completion_tokens) }

\* a panic while the handler runs: the request ends without a response body
HandlerPanic == [type |-> "Panic"]

\* Provider B's complete call returns: the costs are computed, the response is assembled
ChatGeminiReturns ==
    /\ hpc = "chat_gemini"
    /\ hpc' = "responded"
    /\ IF respB.ok
       THEN \E anthropic_cost \in AnthropicCosts :
              \E u \in chat_combined_usage(respA, respB, anthropic_cost) :
                result' = IF u.panic
                          THEN Some(Err(HandlerPanic))
                          ELSE Some([ok |-> TRUE,
                                     json |-> chat_response(respA, respB, u.usage)])
       ELSE result' = Some(Err(UpstreamError("gemini", respB.message)))
    /\ UNCHANGED << inputs, pc, posA, posB, cur, complete_reasoning, deepseek_usage,
                    gemini_messages, callsA, callsB, queue, rx, published, lastSend,
                    received >>

(***************************************************************************)
(* handle_chat -> chat_stream (streaming): the handler                     *)
(***************************************************************************)
\* validation, channel creation, tokio::spawn of the producer, SseResponse returned
ChatStreamEntry ==
    /\ hpc = "entry"
    /\ request.stream
    /\ hpc' = "responded"
    /\ IF chat_stream_validate(request).ok
       THEN /\ result' = Some([ok |-> TRUE, sse |-> TRUE])
            /\ pc' = "start"
            /\ rx' = "open"
       ELSE /\ result' = Some(chat_stream_validate(request))
            /\ UNCHANGED << pc, rx >>
    /\ UNCHANGED << inputs, posA, posB, cur, complete_reasoning, deepseek_usage,
                    gemini_messages, callsA, callsB, queue, published, lastSend,
                    received >>

(***************************************************************************)
(* The producer task spawned by chat_stream.  Each action runs the task    *)
(* from one .await to the next.                                            *)
(***************************************************************************)
text_block_event(x) == ContentEvent(<< ContentBlock("text", x) >>)

\* variant: the delta is sent as a block of type "text"
reasoning_event_as_text(reasoning) == ContentEvent(<< ContentBlock("text", reasoning) >>)

reasoning_event(reasoning) == ContentEvent(<< ContentBlock("text_delta", reasoning) >>)

\* variant: the error is reported with the code of a client error
error_event_client_code(e) == ErrorEvent(e.message, 400)

error_event(e) == ErrorEvent(e.message, ErrorCode)

\* `if let Some(usage) = response.usage { deepseek_usage = Some(usage); }`
record_usage(prev, response) == IF response.usage.some THEN response.usage ELSE prev

\* variant: the task falls through to the Done event instead of returning
after_error_fall_through == "done"

\* where the task continues after the send of an Error event: `return`
after_error == "end"

\* variant: the task begins with the opening tag, no Start event is sent
SendStart_skipped ==
    /\ pc = "start"
    /\ NoSend
    /\ pc' = "thinking_open"
    /\ UNCHANGED << inputs, handler, posA, posB, cur, complete_reasoning, deepseek_usage,
                    gemini_messages, callsA, callsB, rx, received >>

\* the Start event is sent
SendStart ==
    /\ pc = "start"
    /\ Send(StartEvent)
    /\ pc' = "thinking_open"
    /\ UNCHANGED << inputs, handler, posA, posB, cur, complete_reasoning, deepseek_usage,
                    gemini_messages, callsA, callsB, rx, received >>

\* the opening tag is sent; the locals are initialised and Provider A's stream is created
SendThinkingOpen ==
    /\ pc = "thinking_open"
    /\ Send(text_block_event("<thinking>\n"))
    /\ deepseek_usage' = None
    /\ complete_reasoning' = ""
    /\ callsA' = callsA + 1
    /\ pc' = "next_deepseek"
    /\ UNCHANGED << inputs, handler, posA, posB, cur, gemini_messages, callsB, rx,
                    received >>

\* variant: a chunk without reasoning delta is skipped and the loop goes on
on_absent_reasoning_continue == "next_deepseek"

\* `if choice.delta.reasoning_content.is_none() { break; }`
on_absent_reasoning == "thinking_close"

\* variant: every present delta is sent
delta_is_sent_always(reasoning) == TRUE

\* `if !reasoning.is_empty()`
delta_is_sent(reasoning) == reasoning # ""

\* deepseek_stream.next().await resolves; the chunk is handled up to the next .await
NextDeepSeek ==
    /\ pc = "next_deepseek"
    /\ IF posA = Len(streamA)
       THEN /\ pc' = "thinking_close"
            /\ UNCHANGED << posA, cur, deepseek_usage >>
       ELSE LET chunk == streamA[posA + 1] IN
            /\ posA' = posA + 1
            /\ IF ~chunk.ok
               THEN /\ pc' = "error_deepseek"
                    /\ cur' = Some(chunk)
                    /\ UNCHANGED deepseek_usage
               ELSE IF chunk.choice /\ ~chunk.reasoning_content.some
               THEN /\ pc' = on_absent_reasoning
                    /\ UNCHANGED << cur, deepseek_usage >>
               ELSE IF chunk.choice /\ delta_is_sent(chunk.reasoning_content.val)
               THEN /\ pc' = "send_reasoning"
                    /\ cur' = Some(chunk)
                    /\ UNCHANGED deepseek_usage
               ELSE /\ pc' = "next_deepseek"
                    /\ deepseek_usage' = record_usage(deepseek_usage, chunk)
                    /\ UNCHANGED cur
    /\ NoSend
    /\ UNCHANGED << inputs, handler, posB, complete_reasoning, gemini_messages, callsA,
                    callsB, rx, received >>

\* the reasoning delta is sent, accumulated, and the chunk's usage stored
SendReasoning ==
    /\ pc = "send_reasoning"
    /\ Send(reasoning_event(cur.val.reasoning_content.val))
    /\ complete_reasoning' = complete_reasoning \o cur.val.reasoning_content.val
    /\ deepseek_usage' = record_usage(deepseek_usage, cur.val)
    /\ cur' = None
    /\ pc' = "next_deepseek"
    /\ UNCHANGED << inputs, handler, posA, posB, gemini_messages, callsA, callsB, rx,
                    received >>

\* variant: after Provider A's error the stream is opened once more
SendErrorDeepSeek_retry ==
    /\ pc = "error_deepseek"
    /\ IF callsA < 2
       THEN /\ NoSend
            /\ callsA' = callsA + 1
            /\ posA' = 0
            /\ pc' = "next_deepseek"
       ELSE /\ Send(error_event(cur.val))
            /\ pc' = after_error
            /\ UNCHANGED << callsA, posA >>
    /\ cur' = None
    /\ UNCHANGED << inputs, handler, posB, complete_reasoning, deepseek_usage,
                    gemini_messages, callsB, rx, received >>

\* Provider A's error is sent and the task returns
SendErrorDeepSeek ==
    /\ pc = "error_deepseek"
    /\ Send(error_event(cur.val))
    /\ cur' = None
    /\ pc' = after_error
    /\ UNCHANGED << inputs, handler, posA, posB, complete_reasoning, deepseek_usage,
                    gemini_messages, callsA, callsB, rx, received >>

\* variant: Provider B is given the reasoning message alone
stream_gemini_messages_alone(messages, reasoning) ==
    << Message("Assistant", thinking_content(reasoning)) >>

\* the message list chat_stream hands to Provider B
stream_gemini_messages(messages, reasoning) ==
    Append(messages, Message("Assistant", thinking_content(reasoning)))

\* variant: without accumulated reasoning the task reports an error, as chat
\* does, and Provider B's stream is not opened
SendThinkingClose_requires_reasoning ==
    /\ pc = "thinking_close"
    /\ IF complete_reasoning = ""
       THEN /\ Send(ErrorEvent("No reasoning content in response", ErrorCode))
            /\ pc' = "end"
            /\ UNCHANGED << gemini_messages, callsB >>
       ELSE /\ Send(text_block_event("\n</thinking>"))
            /\ gemini_messages' =
                 Some(stream_gemini_messages(request.messages, complete_reasoning))
            /\ callsB' = callsB + 1
            /\ pc' = "next_gemini"
    /\ UNCHANGED << inputs, handler, posA, posB, cur, complete_reasoning, deepseek_usage,
                    callsA, rx, received >>

\* variant: before the closing tag the rest of Provider A's stream is read for
\* its usage
SendThinkingClose_drains ==
    /\ pc = "thinking_close"
    /\ Send(text_block_event("\n</thinking>"))
    /\ posA' = Len(streamA)
    /\ deepseek_usage' =
         IF \E k \in (posA + 1)..Len(streamA) : streamA[k].ok /\ streamA[k].usage.some
         THEN streamA[CHOOSE k \in (posA + 1)..Len(streamA) :
                        /\ streamA[k].ok /\ streamA[k].usage.some
                        /\ \A j \in (k + 1)..Len(streamA) :
                              ~(streamA[j].ok /\ streamA[j].usage.some)].usage
         ELSE deepseek_usage
    /\ gemini_messages' = Some(stream_gemini_messages(request.messages, complete_reasoning))
    /\ callsB' = callsB + 1
    /\ pc' = "next_gemini"
    /\ UNCHANGED << inputs, handler, posB, cur, complete_reasoning, callsA, rx, received >>

\* the closing tag is sent; Provider B's stream is created with the extended list
SendThinkingClose ==
    /\ pc = "thinking_close"
    /\ Send(text_block_event("\n</thinking>"))
    /\ gemini_messages' = Some(stream_gemini_messages(request.messages, complete_reasoning))
    /\ callsB' = callsB + 1
    /\ pc' = "next_gemini"
    /\ UNCHANGED << inputs, handler, posA, posB, cur, complete_reasoning, deepseek_usage,
                    callsA, rx, received >>

\* variant: a MessageDelta never leads to a Usage event
gemini_dispatch_no_usage(event) ==
    IF ~event.ok THEN "error_gemini"
    ELSE IF event.kind = "MessageStart"
         THEN (IF event.content # << >> THEN "send_message_start" ELSE "next_gemini")
    ELSE IF event.kind = "ContentBlockDelta" THEN "send_block_delta"
    ELSE "next_gemini"

\* variant: an event of another kind, or a MessageDelta without usage, ends the loop
gemini_dispatch_stop_on_other(event) ==
    IF ~event.ok THEN "error_gemini"
    ELSE IF event.kind = "MessageStart"
         THEN (IF event.content # << >> THEN "send_message_start" ELSE "next_gemini")
    ELSE IF event.kind = "ContentBlockDelta" THEN "send_block_delta"
    ELSE IF event.kind = "MessageDelta" /\ event.usage.some THEN "send_usage"
    ELSE "done"

\* the position the task reaches after reading `event` from Provider B
gemini_dispatch(event) ==
    IF ~event.ok THEN "error_gemini"
    ELSE IF event.kind = "MessageStart"
         THEN (IF event.content # << >> THEN "send_message_start" ELSE "next_gemini")
    ELSE IF event.kind = "ContentBlockDelta" THEN "send_block_delta"
    ELSE IF event.kind = "MessageDelta"
         THEN (IF event.usage.some THEN "send_usage" ELSE "next_gemini")
    ELSE "next_gemini"

\* gemini_stream.next().await resolves; the event is handled up to the next .await
NextGemini ==
    /\ pc = "next_gemini"
    /\ IF posB = Len(streamB)
       THEN /\ pc' = "done"
            /\ UNCHANGED << posB, cur >>
       ELSE LET event == streamB[posB + 1] IN
            /\ posB' = posB + 1
            /\ pc' = gemini_dispatch(event)
            /\ cur' = IF gemini_dispatch(event) = "next_gemini" THEN None ELSE Some(event)
    /\ NoSend
    /\ UNCHANGED << inputs, handler, posA, complete_reasoning, deepseek_usage,
                    gemini_messages, callsA, callsB, rx, received >>

\* variant: one Content event per block, the first block is sent
message_start_event_first_block(event) ==
    ContentEvent(<< ContentBlock_from_gemini(event.content[1]) >>)

message_start_event(event) == ContentEvent(from_gemini_blocks(event.content))

\* variant: every delta is sent as a block of type "text_delta"
block_delta_event_retyped(event) == ContentEvent(<< ContentBlock("text_delta", event.text) >>)

block_delta_event(event) == ContentEvent(<< ContentBlock(event.delta_type, event.text) >>)

usage_event(combined_usage) == UsageEvent(combined_usage)

SendMessageStart ==
    /\ pc = "send_message_start"
    /\ Send(message_start_event(cur.val))
    /\ cur' = None
    /\ pc' = "next_gemini"
    /\ UNCHANGED << inputs, handler, posA, posB, complete_reasoning, deepseek_usage,
                    gemini_messages, callsA, callsB, rx, received >>

SendContentBlockDelta ==
    /\ pc = "send_block_delta"
    /\ Send(block_delta_event(cur.val))
    /\ cur' = None
    /\ pc' = "next_gemini"
    /\ UNCHANGED << inputs, handler, posA, posB, complete_reasoning, deepseek_usage,
                    gemini_messages, callsA, callsB, rx, received >>

SendUsage ==
    /\ pc = "send_usage"
    /\ \E u \in stream_combined_usage(deepseek_usage, cur.val.usage.val) :
         IF u.panic
         THEN /\ NoSend
              /\ pc' = "panicked"
         ELSE /\ Send(usage_event(u.usage))
              /\ pc' = "next_gemini"
    /\ cur' = None
    /\ UNCHANGED << inputs, handler, posA, posB, complete_reasoning, deepseek_usage,
                    gemini_messages, callsA, callsB, rx, received >>

\* variant: after Provider B's error the task goes on to send Done
SendErrorGemini_then_done ==
    /\ pc = "error_gemini"
    /\ Send(error_event(cur.val))
    /\ cur' = None
    /\ pc' = "done"
    /\ UNCHANGED << inputs, handler, posA, posB, complete_reasoning, deepseek_usage,
                    gemini_messages, callsA, callsB, rx, received >>

\* Provider B's error is sent and the task returns
SendErrorGemini ==
    /\ pc = "error_gemini"
    /\ Send(error_event(cur.val))
    /\ cur' = None
    /\ pc' = after_error
    /\ UNCHANGED << inputs, handler, posA, posB, complete_reasoning, deepseek_usage,
                    gemini_messages, callsA, callsB, rx, received >>

\* variant: Done is sent only when a Usage event was produced
SendDone_after_usage_only ==
    /\ pc = "done"
    /\ IF \E i \in 1..Len(published) : published[i].type = "usage"
       THEN Send(DoneEvent)
       ELSE NoSend
    /\ pc' = "end"
    /\ UNCHANGED << inputs, handler, posA, posB, cur, complete_reasoning, deepseek_usage,
                    gemini_messages, callsA, callsB, rx, received >>

\* the Done event is sent; the task ends and its sender is dropped
SendDone ==
    /\ pc = "done"
    /\ Send(DoneEvent)
    /\ pc' = "end"
    /\ UNCHANGED << inputs, handler, posA, posB, cur, complete_reasoning, deepseek_usage,
                    gemini_messages, callsA, callsB, rx, received >>

(***************************************************************************)
(* The consumer: ReceiverStream::new(rx) polled by the SSE response        *)
(***************************************************************************)
Dequeue(q) == Tail(q)

\* the response stream takes the next event
Receive ==
    /\ rx = "open"
    /\ queue # << >>
    /\ received' = Append(received, Head(queue))
    /\ queue' = Dequeue(queue)
    /\ UNCHANGED << inputs, handler, pc, posA, posB, cur, complete_reasoning,
                    deepseek_usage, gemini_messages, callsA, callsB, rx, published,
                    lastSend >>

\* every sender is gone and the buffer is empty: the response stream ends
ReceiveEnd ==
    /\ rx = "open"
    /\ pc \in { "end", "panicked" }
    /\ queue = << >>
    /\ rx' = "ended"
    /\ UNCHANGED << inputs, handler, pc, posA, posB, cur, complete_reasoning,
                    deepseek_usage, gemini_messages, callsA, callsB, queue, published,
                    lastSend, received >>

\* the caller disconnects: the receiver is dropped, which closes and drains the channel
ConsumerDrop ==
    /\ rx = "open"
    /\ rx' = "dropped"
    /\ queue' = << >>
    /\ UNCHANGED << inputs, handler, pc, posA, posB, cur, complete_reasoning,
                    deepseek_usage, gemini_messages, callsA, callsB, published, lastSend,
                    received >>

Producer ==
    \/ SendStart
    \/ SendThinkingOpen
    \/ NextDeepSeek
    \/ SendReasoning
    \/ SendErrorDeepSeek
    \/ SendThinkingClose
    \/ NextGemini
    \/ SendMessageStart
    \/ SendContentBlockDelta
    \/ SendUsage
    \/ SendErrorGemini
    \/ SendDone

Consumer ==
    \/ Receive
    \/ ReceiveEnd
    \/ ConsumerDrop

Next ==
    \/ ChatEntry
    \/ ChatDeepSeekReturns
    \/ ChatGeminiReturns
    \/ ChatStreamEntry
    \/ Producer
    \/ Consumer

(***************************************************************************)
(* Initial states with provider streams long enough to fill the channel    *)
(***************************************************************************)
Repeat(x, n) == [i \in 1..n |-> x]

LongStreams ==
    { [a |-> Repeat(ChunkA(TRUE, Some("a"), None), Capacity - 2)
             \o << ChunkA(TRUE, Some(""), Some(UA1)), ChunkA(TRUE, Some("b"), None),
                   ErrA("ea") >>,
       b |-> << >>],
      [a |-> Repeat(ChunkA(TRUE, Some("a"), None), Capacity - 2)
             \o << ChunkA(TRUE, None, None) >>,
       b |-> << ContentBlockDelta("text_delta", "z") >>],
      [a |-> << >>,
       b |-> << MessageStart(<< GeminiBlock("text", "x") >>),
                MessageDelta(Some([usage |-> Some(UB1)])) >>
             \o Repeat(ContentBlockDelta("text_delta", "z"), Capacity - 5)
             \o << OtherEvent, ContentBlockDelta("text_delta", "z"), ErrB("eb") >>] }

InitLong ==
    /\ request \in { r \in Requests : r.stream /\ ValidRequest(r)
                                      /\ r.messages = << Message("User", "q") >> }
    /\ \E s \in LongStreams : streamA = s.a /\ streamB = s.b
    /\ respA = NoResponse
    /\ respB = NoResponse

InitFull ==
    /\ InitTask
    /\ \/ InitLong
       \/ InitComplete
       \/ InitInvalid

(***************************************************************************)
(* Initial states whose usage records range over the token counts          *)
(***************************************************************************)
TokenValues == { 0, 1, 727, MaxToken }

\* Provider A usage records, cached_tokens above prompt_tokens among them
WideUsagesA ==
    { UsageA(p, c, 0, h, p) : p \in TokenValues, h \in TokenValues, c \in { 0, 4 } }

UB2 == UsageB(133, 0, 133)

UsageStreamsB ==
    { << MessageStart(<< GeminiBlock("text", "x") >>),
         ContentBlockDelta("text_delta", "z"),
         MessageDelta(Some([usage |-> Some(UB1)])) >>,
      << MessageDelta(Some([usage |-> Some(UB2)])) >>,
      << MessageDelta(Some([usage |-> None])) >> }

InitUsageStreaming ==
    /\ request \in { r \in Requests : r.stream /\ ValidRequest(r)
                                      /\ r.messages = << Message("User", "q") >> }
    /\ \/ /\ \E u \in WideUsagesA :
               streamA = << ChunkA(TRUE, Some("a"), Some(u)), ChunkA(TRUE, None, None) >>
          /\ streamB \in UsageStreamsB
       \/ streamA = << ErrA("ea") >> /\ streamB = << >>
       \/ streamA = << >> /\ streamB \in UsageStreamsB \cup { << ErrB("eb") >> }
    /\ respA = NoResponse
    /\ respB = NoResponse

InitUsageComplete ==
    /\ request \in { r \in Requests : ~r.stream /\ ValidRequest(r)
                                      /\ r.messages = << Message("User", "q") >> }
    /\ streamA = << >>
    /\ streamB = << >>
    /\ respA \in { CompleteA(TRUE, Some("r"), u) : u \in WideUsagesA }
    /\ respB \in { CompleteB(<< GeminiBlock("text", "x") >>, Some(UB1)),
                   CompleteB(<< GeminiBlock("text", "x") >>, Some(UB2)),
                   CompleteB(<< >>, None) }

InitUsage ==
    /\ InitTask
    /\ \/ InitUsageStreaming
       \/ InitUsageComplete

Spec == Init /\ [][Next]_vars

\* the same program on the long provider streams
SpecFull == InitFull /\ [][Next]_vars

\* the same program on usage records of every shape
SpecUsage == InitUsage /\ [][Next]_vars

\* the long provider streams, the spawned task scheduled whenever it can take a
\* step, and a consumer that does not stall for ever: it takes the next event,
\* sees the end of the stream, or disappears
SpecFullFair ==
    InitFull /\ [][Next]_vars /\ WF_vars(Producer) /\ WF_vars(Consumer)

\* the spawned task is scheduled whenever it can take a step: an upstream item
\* is ready, or its send can complete
SpecFair == Init /\ [][Next]_vars /\ WF_vars(Producer)

(***************************************************************************)
(* Vocabulary of the properties                                            *)
(***************************************************************************)
IsPrefix(s, t) == Len(s) <= Len(t) /\ SubSeq(t, 1, Len(s)) = s

Last(s) == s[Len(s)]

RECURSIVE Flatten(_)
Flatten(ss) == IF ss = << >> THEN << >> ELSE Head(ss) \o Flatten(Tail(ss))

\* the items the task has taken from each provider stream so far
ReadA == SubSeq(streamA, 1, posA)
ReadB == SubSeq(streamB, 1, posB)

ErrorRead == (\E i \in 1..posA : ~streamA[i].ok) \/ (\E i \in 1..posB : ~streamB[i].ok)

TypesOf(events) == [i \in 1..Len(events) |-> events[i].type]

Positions(events, t) == { i \in 1..Len(events) : events[i].type = t }

\* the events a sequence of Provider A chunks is to produce: one text_delta
\* Content event per non-empty reasoning delta
ExpectedReasoning(chunks) ==
    Flatten([i \in 1..Len(chunks) |->
        IF chunks[i].ok /\ chunks[i].choice /\ chunks[i].reasoning_content.some
           /\ chunks[i].reasoning_content.val # ""
        THEN << [type |-> "content",
                 content |-> << [type |-> "text_delta",
                                 text |-> chunks[i].reasoning_content.val] >>] >>
        ELSE << >>])

\* the CombinedUsage of a Usage event whose cost computation completes
ExpectedUsage(ds, usage) ==
    (CHOOSE u \in stream_combined_usage(ds, usage) : ~u.panic).usage

\* the events a sequence of Provider B native events is to produce; `ds` is the
\* Provider A usage recorded in the first loop
ExpectedAnswer(events, ds) ==
    Flatten([i \in 1..Len(events) |->
        IF ~events[i].ok THEN << >>
        ELSE IF events[i].kind = "MessageStart" /\ events[i].content # << >>
        THEN << [type |-> "content",
                 content |-> [j \in 1..Len(events[i].content) |->
                                [type |-> events[i].content[j].content_type,
                                 text |-> events[i].content[j].text]]] >>
        ELSE IF events[i].kind = "ContentBlockDelta"
        THEN << [type |-> "content",
                 content |-> << [type |-> events[i].delta_type,
                                 text |-> events[i].text] >>] >>
        ELSE IF events[i].kind = "MessageDelta" /\ events[i].usage.some
        THEN << [type |-> "usage",
                 usage |-> ExpectedUsage(ds, events[i].usage.val)] >>
        ELSE << >>])

ThinkingOpenEvent ==
    [type |-> "content", content |-> << [type |-> "text", text |-> "<thinking>\n"] >>]
ThinkingCloseEvent ==
    [type |-> "content", content |-> << [type |-> "text", text |-> "\n</thinking>"] >>]

\* the Provider A usage recorded in the first loop of this run
RecordedUsageA == deepseek_usage

\* the whole event sequence of a run without upstream error
ExpectedHappyPath ==
    << [type |-> "start"], ThinkingOpenEvent >>
    \o ExpectedReasoning(ReadA)
    \o << ThinkingCloseEvent >>
    \o ExpectedAnswer(ReadB, RecordedUsageA)
    \o << [type |-> "done"] >>

ReasoningPhase == { "next_deepseek", "send_reasoning", "error_deepseek", "thinking_close" }
AnswerPhase ==
    { "next_gemini", "send_message_start", "send_block_delta", "send_usage",
      "error_gemini", "done" }

(***************************************************************************)
(* C1: in a run of chat_stream in which no provider stream yields an       *)
(* error, the events published are, in this order: Start, the opening      *)
(* thinking tag, one text_delta Content event per non-empty reasoning      *)
(* delta read from Provider A, the closing thinking tag, the translated    *)
(* Provider B events, Done.  At every moment what is published is a prefix *)
(* of that sequence, the closing tag is unpublished during the reasoning   *)
(* phase and published during the answer phase, and the finished task has  *)
(* published all of it.                                                    *)
(***************************************************************************)
C1_HappyPathOrder ==
    (pc # "idle" /\ ~ErrorRead) =>
        /\ IsPrefix(published, ExpectedHappyPath)
        /\ pc \in ReasoningPhase =>
             /\ ThinkingCloseEvent \notin { published[i] : i \in 1..Len(published) }
             /\ posB = 0
        /\ pc \in AnswerPhase =>
             published[2 + Len(ExpectedReasoning(ReadA)) + 1] = ThinkingCloseEvent
        /\ pc = "end" => published = ExpectedHappyPath

C1_Witness ==
    /\ pc = "end"
    /\ ~ErrorRead
    /\ Len(ExpectedReasoning(ReadA)) >= 1
    /\ Cardinality(Positions(published, "usage")) >= 1
    /\ Len(ExpectedAnswer(ReadB, RecordedUsageA)) >= 3
    /\ Last(published).type = "done"

(***************************************************************************)
(* C2: an Error event is terminal: it is the last event published, so no   *)
(* event of any kind follows it and no run holds both an Error and a Done. *)
(***************************************************************************)
C2_ErrorTerminal ==
    /\ \A i \in Positions(published, "error") : i = Len(published) /\ pc = "end"
    /\ Positions(published, "error") = { } \/ Positions(published, "done") = { }

C2_Witness ==
    /\ Positions(published, "error") # { }
    /\ pc = "end"
    /\ Len(published) >= 4

(***************************************************************************)
(* C3: in a run that ends with Done, the Usage events are those of the     *)
(* Provider B "message finished" events that carry usage: one per such     *)
(* event (none when there is none, several when there are several), each   *)
(* at the place of its event among the translated Provider B events, hence *)
(* after the closing thinking tag and before Done.                         *)
(***************************************************************************)
ProducesEvent(e) ==
    /\ e.ok
    /\ \/ e.kind = "MessageStart" /\ e.content # << >>
       \/ e.kind = "ContentBlockDelta"
       \/ e.kind = "MessageDelta" /\ e.usage.some

UsageItems(events) ==
    { i \in 1..Len(events) :
        events[i].ok /\ events[i].kind = "MessageDelta" /\ events[i].usage.some }

EndsWithDone == pc = "end" /\ published # << >> /\ Last(published).type = "done"

C3_UsagePerMessageDelta ==
    EndsWithDone =>
        LET n == Len(published)
            closeAt == 3 + Len(ExpectedReasoning(ReadA))
            producing == SelectSeq(streamB, ProducesEvent)
        IN  /\ posB = Len(streamB)
            /\ published[closeAt] = ThinkingCloseEvent
            /\ Cardinality(Positions(published, "usage")) = Cardinality(UsageItems(streamB))
            /\ \A i \in Positions(published, "usage") : closeAt < i /\ i < n
            /\ TypesOf(SubSeq(published, closeAt + 1, n - 1))
                 = [k \in 1..Len(producing) |->
                      IF producing[k].kind = "MessageDelta" THEN "usage" ELSE "content"]

C3_Witness ==
    /\ EndsWithDone
    /\ Cardinality(Positions(published, "usage")) = 2
    /\ \E i \in Positions(published, "usage") :
         \E j \in Positions(published, "content") : i < j

\* the claim as stated: exactly one Usage event, immediately before Done, after
\* every Provider B content event
C3_UsageOnceBeforeDone ==
    EndsWithDone =>
        /\ Cardinality(Positions(published, "usage")) = 1
        /\ \A i \in Positions(published, "usage") :
             /\ i = Len(published) - 1
             /\ \A j \in Positions(published, "content") : j < i

(***************************************************************************)
(* C4: once Provider B's stream is exhausted without having yielded an     *)
(* error, the task sends Done and ends: the finished task has published    *)
(* exactly one Done, as its last event, whatever was published before.     *)
(***************************************************************************)
AnswerStreamEnded ==
    /\ callsB = 1
    /\ pc \in { "done", "end" }
    /\ \A i \in 1..posB : streamB[i].ok

C4_DoneUnconditional ==
    AnswerStreamEnded =>
        /\ posB = Len(streamB)
        /\ pc = "done" => Positions(published, "done") = { }
        /\ pc = "end" => Positions(published, "done") = { Len(published) }

C4_Witness ==
    /\ AnswerStreamEnded
    /\ pc = "end"
    /\ published = << [type |-> "start"], ThinkingOpenEvent, ThinkingCloseEvent,
                      [type |-> "done"] >>

(***************************************************************************)
(* C5: when the k-th item of Provider A's stream is an error read in the   *)
(* reasoning loop, the events published are Start, the opening tag, the    *)
(* text_delta events of chunks 1..k-1 and one Error event of code 500; the *)
(* closing tag and Done are never sent and Provider B is never called.     *)
(***************************************************************************)
ReasoningErrorRead == posA >= 1 /\ ~streamA[posA].ok

BeforeReasoningError ==
    << [type |-> "start"], ThinkingOpenEvent >>
    \o ExpectedReasoning(SubSeq(streamA, 1, posA - 1))

C5_ReasoningError ==
    ReasoningErrorRead =>
        /\ pc \in { "error_deepseek", "end" }
        /\ callsB = 0
        /\ posB = 0
        /\ gemini_messages = None
        /\ pc = "error_deepseek" => published = BeforeReasoningError
        /\ pc = "end" =>
             published = BeforeReasoningError
                         \o << [type |-> "error", message |-> streamA[posA].message,
                                code |-> 500] >>

C5_Witness ==
    /\ ReasoningErrorRead
    /\ pc = "end"
    /\ posA = 3
    /\ Len(published) = 5

(***************************************************************************)
(* C6: in chat, a complete response of Provider A without a non-empty      *)
(* reasoning field (no choice, no reasoning, or empty reasoning) makes the *)
(* request fail with the missing-reasoning error, and Provider B is not    *)
(* called.                                                                 *)
(***************************************************************************)
NoNonEmptyReasoning(response) ==
    /\ response.ok
    /\ \/ ~response.choice
       \/ ~response.reasoning_content.some
       \/ response.reasoning_content.val = ""

C6_MissingReasoningStops ==
    (~request.stream /\ callsA = 1 /\ hpc \in { "chat_gemini", "responded" }
     /\ NoNonEmptyReasoning(respA)) =>
        /\ callsB = 0
        /\ hpc = "responded"
        /\ result = Some([ok |-> FALSE,
                          error |-> [type |-> "DeepSeekError",
                                     message |-> "No reasoning content in response",
                                     type_ |-> "missing_content"]])

(***************************************************************************)
(* C7: every successful response of chat holds the text block              *)
(* "<thinking>\n" + reasoning + "\n</thinking>" followed by Provider B's   *)
(* blocks in order, type and text unchanged; Provider B was given the      *)
(* original list followed by one Assistant message with that wrapped text. *)
(***************************************************************************)
ChatSucceeded == ~request.stream /\ hpc = "responded" /\ result.val.ok

WrappedReasoning == "<thinking>\n" \o respA.reasoning_content.val \o "\n</thinking>"

C7_ChatContent ==
    /\ (~request.stream /\ gemini_messages.some) =>
          gemini_messages.val
            = request.messages \o << [role |-> "Assistant", content |-> WrappedReasoning] >>
    /\ ChatSucceeded =>
          /\ gemini_messages.some
          /\ result.val.json.content
               = << [type |-> "text", text |-> WrappedReasoning] >>
                 \o [i \in 1..Len(respB.content) |->
                       [type |-> respB.content[i].content_type,
                        text |-> respB.content[i].text]]

C7_Witness ==
    /\ ChatSucceeded
    /\ Len(result.val.json.content) = 3
    /\ Len(request.messages) = 2
    /\ respA.reasoning_content.val = "r"

(***************************************************************************)
(* C8: a request that fails validation is answered with the first failure  *)
(* in the order system prompt, Provider A header, Provider B header, the   *)
(* same on both paths, and nothing else has happened: no provider call, no *)
(* producer task, no channel, no event.                                    *)
(***************************************************************************)
FirstValidationFailure(r) ==
    IF ~r.system_prompt_valid THEN [type |-> "InvalidSystemPrompt"]
    ELSE IF r.deepseek_header = "missing"
         THEN [type |-> "MissingHeader", header |-> "X-DeepSeek-API-Token"]
    ELSE IF r.deepseek_header = "malformed"
         THEN [type |-> "BadRequest", message |-> "Invalid DeepSeek API token"]
    ELSE IF r.gemini_header = "missing"
         THEN [type |-> "MissingHeader", header |-> "X-Gemini-API-Token"]
    ELSE [type |-> "BadRequest", message |-> "Invalid Gemini API token"]

C8_ValidationFirst ==
    ~ValidRequest(request) =>
        /\ callsA = 0
        /\ callsB = 0
        /\ pc = "idle"
        /\ rx = "none"
        /\ published = << >>
        /\ queue = << >>
        /\ hpc \in { "entry", "responded" }
        /\ hpc = "responded" =>
             result = Some([ok |-> FALSE, error |-> FirstValidationFailure(request)])

C8_Witness ==
    /\ request.stream
    /\ hpc = "responded"
    /\ ~request.system_prompt_valid
    /\ request.deepseek_header = "missing"
    /\ streamA # << >>

(***************************************************************************)
(* C9: the consumer receives the published events in the order of their    *)
(* publication: what it has received is a prefix of what was published;    *)
(* while it is alive every send is accepted and the published events are   *)
(* exactly the received ones followed by the buffered ones; a response     *)
(* stream that ended has received all of them.                             *)
(***************************************************************************)
C9_FifoDelivery ==
    /\ IsPrefix(received, published)
    /\ rx = "open" =>
         /\ published = received \o queue
         /\ lastSend # "closed"
    /\ rx = "ended" => received = published

C9_Witness ==
    /\ rx = "open"
    /\ Len(received) >= 2
    /\ Len(queue) >= 2
    /\ received[2] # queue[1]

(***************************************************************************)
(* C10: the channel never holds more than 100 events; a task that has an   *)
(* event to send while the channel is full and the consumer alive is       *)
(* suspended in that send (it publishes nothing and reads nothing from     *)
(* either provider until the consumer takes an event or disappears); at    *)
(* most one upstream item has been read and not yet published.             *)
(***************************************************************************)
SendPositions ==
    { "start", "thinking_open", "send_reasoning", "error_deepseek", "thinking_close",
      "send_message_start", "send_block_delta", "send_usage", "error_gemini", "done" }

UpstreamSendPositions ==
    { "send_reasoning", "error_deepseek", "send_message_start", "send_block_delta",
      "send_usage", "error_gemini" }

ChannelFull == rx = "open" /\ Len(queue) = Capacity

\* upstream items read so far that are to produce an event
ReadProducing ==
    Len(ExpectedReasoning(ReadA))
    + Cardinality({ i \in 1..posA : ~streamA[i].ok })
    + Len(SelectSeq(ReadB, ProducesEvent))
    + Cardinality({ i \in 1..posB : ~streamB[i].ok })

\* events published so far that come from an upstream item
PublishedUpstream ==
    Cardinality({ i \in 1..Len(published) :
        published[i] \notin { [type |-> "start"], ThinkingOpenEvent, ThinkingCloseEvent,
                              [type |-> "done"] } })

BoundedChannel ==
    /\ Len(queue) <= Capacity
    /\ ReadProducing - PublishedUpstream = (IF pc \in UpstreamSendPositions THEN 1 ELSE 0)
    /\ cur.some <=> pc \in UpstreamSendPositions

SuspendedWhileFull ==
    (ChannelFull /\ pc \in SendPositions) =>
        /\ pc' = pc
        /\ posA' = posA
        /\ posB' = posB
        /\ published' = published
        /\ \/ rx' = "dropped"
           \/ Len(queue') = Capacity - 1

C10_Backpressure == []BoundedChannel /\ [][SuspendedWhileFull]_vars

C10_Witness ==
    /\ ChannelFull
    /\ pc = "send_block_delta"
    /\ Len(received) >= 1

\* the claim as stated: while the channel is full no further chunk is read from
\* either provider stream
C10_NoReadWhileFull == [][ChannelFull => (posA' = posA /\ posB' = posB)]_vars

(***************************************************************************)
(* Vocabulary of the cost properties                                       *)
(***************************************************************************)
Max(a, b) == IF a >= b THEN a ELSE b

\* Provider A's cost with the cache-miss tokens clamped at zero
ClampedDeepSeekCost(usage) ==
    usage.cached_tokens * Pricing.deepseek.input_cache_hit_price
    + Max(usage.prompt_tokens - usage.cached_tokens, 0)
      * Pricing.deepseek.input_cache_miss_price
    + usage.completion_tokens * Pricing.deepseek.output_price

\* the non-streaming request got as far as the cost computation
ChatReachedCosts ==
    /\ ~request.stream
    /\ hpc = "responded"
    /\ ValidRequest(request)
    /\ respA.ok
    /\ chat_reasoning_content(respA).some
    /\ respB.ok

\* the CombinedUsage records produced so far, on either path
CombinedUsages ==
    { published[i].usage : i \in Positions(published, "usage") }
    \cup (IF ChatReachedCosts /\ result.val.ok
          THEN { result.val.json.combined_usage } ELSE { })

\* C11: for all token counts calculate_deepseek_cost prices
\* max(input_tokens - cached_tokens, 0) cache-miss tokens, also when
\* input_tokens < cached_tokens: the cost is never computed from a wrapped
\* difference and the computation never faults.
C11_ClampsCacheMiss ==
    /\ pc # "panicked"
    /\ ChatReachedCosts =>
         /\ result.val.ok
         /\ \A c \in deepseek_cost_of(respA.usage) :
              ~c.panic /\ c.cost = ClampedDeepSeekCost(respA.usage)
    /\ (Positions(published, "usage") # { } /\ deepseek_usage.some) =>
         \A c \in deepseek_cost_of(deepseek_usage.val) :
           ~c.panic /\ c.cost = ClampedDeepSeekCost(deepseek_usage.val)

\* the costs of the token counts a CombinedUsage reports
ReportedCostA(deepseek) ==
    deepseek.cached_input_tokens * Pricing.deepseek.input_cache_hit_price
    + Max(deepseek.input_tokens - deepseek.cached_input_tokens, 0)
      * Pricing.deepseek.input_cache_miss_price
    + deepseek.output_tokens * Pricing.deepseek.output_price

ReportedCostB(gemini) ==
    gemini.input_tokens * Pricing.gemini.input_price
    + gemini.output_tokens * Pricing.gemini.output_price

\* C12: in every CombinedUsage produced, by chat or in a Usage event of
\* chat_stream, total_cost is the rendering of cost_a + cost_b, the two costs
\* being those of the token counts reported in the same record's provider
\* usage records (the unrounded sum is rendered).
C12_TotalIsRenderedSum ==
    \A u \in CombinedUsages :
        u.total_cost = format_cost(ReportedCostA(u.deepseek_usage)
                                   + ReportedCostB(u.gemini_usage))

Digits == { "0", "1", "2", "3", "4", "5", "6", "7", "8", "9" }

\* a currency prefix, at least one digit, a point, exactly three digits
WellFormedMoney(s) ==
    /\ Len(s) >= 6
    /\ s[1] = "$"
    /\ \A i \in 2..(Len(s) - 4) : s[i] \in Digits
    /\ s[Len(s) - 3] = "."
    /\ \A i \in (Len(s) - 2)..Len(s) : s[i] \in Digits

ZeroMoney == << "$", "0", ".", "0", "0", "0" >>

AllZeroA(deepseek) ==
    /\ deepseek.input_tokens = 0
    /\ deepseek.cached_input_tokens = 0
    /\ deepseek.output_tokens = 0

AllZeroB(gemini) == gemini.input_tokens = 0 /\ gemini.output_tokens = 0

\* C13: every monetary string of a CombinedUsage (the combined total_cost and
\* each provider's total_cost) has the currency prefix and exactly three
\* decimal digits, and a provider whose counts are all zero renders as
\* "$0.000"; also in a Usage event built when Provider A's usage was never
\* recorded, and in chat when Provider B's usage is absent.
C13_MoneyRendering ==
    \A u \in CombinedUsages :
        /\ WellFormedMoney(u.total_cost)
        /\ WellFormedMoney(u.deepseek_usage.total_cost)
        /\ WellFormedMoney(u.gemini_usage.total_cost)
        /\ AllZeroA(u.deepseek_usage) => u.deepseek_usage.total_cost = ZeroMoney
        /\ AllZeroB(u.gemini_usage) => u.gemini_usage.total_cost = ZeroMoney

(***************************************************************************)
(* Vocabulary of the properties of the two relay phases                    *)
(***************************************************************************)
\* the token counts of a DeepSeekUsage record
TokensA(deepseek) ==
    [ input_tokens        |-> deepseek.input_tokens,
      output_tokens       |-> deepseek.output_tokens,
      reasoning_tokens    |-> deepseek.reasoning_tokens,
      cached_input_tokens |-> deepseek.cached_input_tokens,
      total_tokens        |-> deepseek.total_tokens ]

\* the positions of the chunks that carry usage
UsageChunks(chunks) ==
    { k \in 1..Len(chunks) : chunks[k].ok /\ chunks[k].usage.some }

MaxOf(S) == CHOOSE m \in S : \A k \in S : k <= m

\* the token counts of the last chunk that carries usage, zeros when none does
LastUsageOf(chunks) ==
    IF UsageChunks(chunks) = { }
    THEN TokensA(DeepSeekUsage_zero)
    ELSE LET usage == chunks[MaxOf(UsageChunks(chunks))].usage.val
         IN  [ input_tokens        |-> usage.prompt_tokens,
               output_tokens       |-> usage.completion_tokens,
               reasoning_tokens    |-> usage.reasoning_tokens,
               cached_input_tokens |-> usage.cached_tokens,
               total_tokens        |-> usage.total_tokens ]

\* C14: the Provider A usage carried by a Usage event is the usage of the last
\* chunk of Provider A's stream that carried usage (last value wins), for every
\* chunk sequence: also when that chunk is the one whose reasoning delta is
\* absent, or one that follows it.
C14_LastUsageWins ==
    \A i \in Positions(published, "usage") :
        TokensA(published[i].usage.deepseek_usage) = LastUsageOf(streamA)

\* the request has failed: an upstream item was an error, or the handler
\* returned an error (validation, upstream, missing reasoning)
RequestFailed == ErrorRead \/ (result.some /\ ~result.val.ok)

AtMostOnceEach == callsA <= 1 /\ callsB <= 1 /\ callsA + callsB <= 2

NoCallAfterFailure == RequestFailed => (callsA' = callsA /\ callsB' = callsB)

\* C15: within one request, on both paths, each provider's operation (complete
\* call or stream open) is issued at most once, so at most two provider
\* invocations in all, and once the request has failed (upstream failure,
\* missing reasoning) no provider call is issued any more.
C15_NoRetries == []AtMostOnceEach /\ [][NoCallAfterFailure]_vars

\* a streaming run whose Provider A stream failed after it was opened has ended
\* with that one call of Provider A and none of Provider B
C15_Witness ==
    /\ pc = "end"
    /\ ReasoningErrorRead
    /\ callsA = 1
    /\ callsB = 0

\* the producer task has gone past its first send
StartSent == pc \notin { "idle", "start" }

\* C16: in every streaming run exactly one Start event is published and it is
\* the first event published: it precedes every Content, Usage, Done and Error
\* event, and Provider A's stream is not opened before it.
C16_StartFirst ==
    /\ Cardinality(Positions(published, "start")) <= 1
    /\ published # << >> => published[1] = [type |-> "start"]
    /\ StartSent => Positions(published, "start") = { 1 }
    /\ (request.stream /\ callsA + callsB > 0) => Positions(published, "start") = { 1 }

\* a run has ended after Provider A's stream was opened and several events
\* followed the Start event
C16_Witness ==
    /\ pc = "end"
    /\ callsA = 1
    /\ Len(published) >= 4
    /\ Positions(published, "start") = { 1 }

\* the chunk read last from Provider A has a choice whose reasoning delta is absent
AbsentRead ==
    /\ posA >= 1
    /\ streamA[posA].ok
    /\ streamA[posA].choice
    /\ ~streamA[posA].reasoning_content.some

\* the events of the reasoning phase so far
ReasoningEvents == << [type |-> "start"], ThinkingOpenEvent >> \o ExpectedReasoning(ReadA)

\* the closing marker follows the reasoning events and Provider B's stream is open
ClosedAndOpened ==
    /\ Len(published) > Len(ReasoningEvents)
    /\ published[Len(ReasoningEvents) + 1] = ThinkingCloseEvent
    /\ callsB = 1
    /\ gemini_messages.some

AbsentEndsPhase ==
    AbsentRead =>
        /\ pc # "error_deepseek"
        /\ IsPrefix(ReasoningEvents, published)
        /\ Positions(ReasoningEvents, "error") = { }
        /\ IF pc = "thinking_close"
           THEN published = ReasoningEvents /\ callsB = 0
           ELSE ClosedAndOpened

AbsentStopsReading == AbsentRead => posA' = posA

\* C17: in ReasoningRelay a chunk whose reasoning delta is absent ends the phase
\* without error: no Error event is published for it, no further chunk of
\* Provider A is read, the next event published is the closing thinking marker,
\* and Provider B's stream is then opened.
C17_AbsentReasoningEndsPhase ==
    /\ []AbsentEndsPhase
    /\ [][AbsentStopsReading]_vars
    /\ (AbsentRead ~> ClosedAndOpened)

\* after a non-empty delta a chunk with absent reasoning was read, chunks still
\* follow it in the stream, and the run has ended
C17_Witness ==
    /\ AbsentRead
    /\ posA >= 2
    /\ posA < Len(streamA)
    /\ ClosedAndOpened
    /\ pc = "end"

\* a chunk with a reasoning delta that is present
DeltaPresent(chunk) == chunk.ok /\ chunk.choice /\ chunk.reasoning_content.some

EmptyDelta(chunk) == DeltaPresent(chunk) /\ chunk.reasoning_content.val = ""

NonEmptyDelta(chunk) == DeltaPresent(chunk) /\ chunk.reasoning_content.val # ""

\* the Content event of one reasoning delta
DeltaEvent(text) ==
    [type |-> "content", content |-> << [type |-> "text_delta", text |-> text] >>]

\* the chunks read whose handling is over: all but the one whose event is being sent
HandledA == IF pc = "send_reasoning" THEN SubSeq(streamA, 1, posA - 1) ELSE ReadA

\* while Provider A's stream is relayed the events published are the opening
\* events and one text_delta event per non-empty delta handled, in order
OneEventPerDelta ==
    pc \in { "next_deepseek", "send_reasoning" } =>
        published = << [type |-> "start"], ThinkingOpenEvent >> \o ExpectedReasoning(HandledA)

\* the step that reads the next chunk of Provider A
ReadsChunkA == pc = "next_deepseek" /\ posA' = posA + 1

DeltaSteps ==
    /\ ReadsChunkA => published = ReasoningEvents
    /\ (ReadsChunkA /\ NonEmptyDelta(streamA[posA + 1])) =>
          pc' = "send_reasoning" /\ published' = published
    /\ (ReadsChunkA /\ EmptyDelta(streamA[posA + 1])) =>
          /\ pc' = "next_deepseek"
          /\ published' = published
          /\ complete_reasoning' = complete_reasoning
    /\ pc = "send_reasoning" =>
          /\ NonEmptyDelta(streamA[posA])
          /\ posA' = posA
          /\ \/ pc' = pc /\ published' = published
             \/ /\ pc' = "next_deepseek"
                /\ published' = Append(published,
                                       DeltaEvent(streamA[posA].reasoning_content.val))

\* C18: in ReasoningRelay each chunk whose reasoning delta is present and
\* non-empty produces exactly one Content event, with a single block of type
\* "text_delta" whose text is that delta, and the event is published before the
\* next chunk of Provider A is read; a chunk whose delta is present but empty
\* produces no event, leaves the accumulator unchanged and does not end the phase.
C18_OneEventPerDelta == []OneEventPerDelta /\ [][DeltaSteps]_vars

\* an empty delta was read, the relay went on, and the non-empty delta read
\* after it has been published
C18_Witness ==
    /\ pc = "next_deepseek"
    /\ posA >= 2
    /\ EmptyDelta(streamA[posA - 1])
    /\ NonEmptyDelta(streamA[posA])
    /\ Last(published) = DeltaEvent(streamA[posA].reasoning_content.val)

\* the position of the closing thinking marker among the events published
ClosePositions == { i \in 1..Len(published) : published[i] = ThinkingCloseEvent }

MinOf(S) == CHOOSE m \in S : \A k \in S : m <= k

\* the text_delta Content events published during ReasoningRelay: those between
\* the opening and the closing marker
ShownDeltas == SubSeq(published, 3, MinOf(ClosePositions) - 1)

RECURSIVE ConcatTexts(_)
ConcatTexts(events) ==
    IF events = << >> THEN ""
    ELSE events[1].content[1].text \o ConcatTexts(Tail(events))

\* C19: at the transition to AnswerRelay the message list given to Provider B's
\* stream is the original message list unchanged, followed by exactly one
\* Assistant message whose content is "<thinking>\n" + R + "\n</thinking>",
\* R being the in-order concatenation of the texts of the text_delta Content
\* events published during ReasoningRelay.
C19_MessagesForProviderB ==
    (request.stream /\ callsB > 0) =>
        /\ ClosePositions # { }
        /\ \A i \in 1..Len(ShownDeltas) :
              /\ ShownDeltas[i].type = "content"
              /\ Len(ShownDeltas[i].content) = 1
              /\ ShownDeltas[i].content[1].type = "text_delta"
        /\ gemini_messages
             = Some(request.messages
                    \o << [role |-> "Assistant",
                           content |-> "<thinking>\n" \o ConcatTexts(ShownDeltas)
                                       \o "\n</thinking>"] >>)

\* Provider B's stream was opened after two deltas were shown, for a request
\* of one message
C19_Witness ==
    /\ request.stream
    /\ callsB = 1
    /\ Len(ShownDeltas) >= 2
    /\ ConcatTexts(ShownDeltas) \in { "ab", "ba" }
    /\ Len(gemini_messages.val) = 2

\* a 'message started' event of Provider B
IsMessageStart(event) == event.ok /\ event.kind = "MessageStart"

\* the Content event that carries the initial blocks one for one
InitialContentEvent(event) ==
    [type |-> "content",
     content |-> [j \in 1..Len(event.content) |->
                    [type |-> event.content[j].content_type,
                     text |-> event.content[j].text]]]

\* Provider B's events whose handling is over
HandledB ==
    IF pc \in { "send_message_start", "send_block_delta", "send_usage", "error_gemini" }
    THEN SubSeq(streamB, 1, posB - 1)
    ELSE ReadB

\* the events published after the closing thinking marker
AnswerEvents == SubSeq(published, MinOf(ClosePositions) + 1, Len(published))

\* while Provider B's stream is relayed the events published after the closing
\* marker are those of the native events handled, in order
AnswerTranslated ==
    pc \in { "next_gemini", "send_message_start", "send_block_delta", "send_usage" } =>
        AnswerEvents = ExpectedAnswer(HandledB, deepseek_usage)

\* the step that reads the next event of Provider B
ReadsEventB == pc = "next_gemini" /\ posB' = posB + 1

MessageStartSteps ==
    /\ (ReadsEventB /\ IsMessageStart(streamB[posB + 1])
        /\ streamB[posB + 1].content # << >>) =>
          pc' = "send_message_start" /\ published' = published
    /\ (ReadsEventB /\ IsMessageStart(streamB[posB + 1])
        /\ streamB[posB + 1].content = << >>) =>
          pc' = "next_gemini" /\ published' = published
    /\ pc = "send_message_start" =>
          /\ IsMessageStart(streamB[posB])
          /\ streamB[posB].content # << >>
          /\ posB' = posB
          /\ \/ pc' = pc /\ published' = published
             \/ /\ pc' = "next_gemini"
                /\ published' = Append(published, InitialContentEvent(streamB[posB]))

\* C20: in AnswerRelay a 'message started' event of Provider B with non-empty
\* initial content produces exactly one Content event, whose blocks are the
\* initial content blocks in the same order with the same type and text; a
\* 'message started' event with empty initial content produces no event.
C20_MessageStartContent == []AnswerTranslated /\ [][MessageStartSteps]_vars

\* a 'message started' event with two blocks and one with none have both been
\* handled, and the two blocks were published as one event
C20_Witness ==
    /\ pc = "next_gemini"
    /\ \E i \in 1..posB : IsMessageStart(streamB[i]) /\ streamB[i].content = << >>
    /\ \E i \in 1..posB : /\ IsMessageStart(streamB[i])
                          /\ Len(streamB[i].content) = 2
                          /\ InitialContentEvent(streamB[i]) = Last(published)
    /\ Cardinality(Positions(AnswerEvents, "content")) = 1

\* an 'incremental content delta' event of Provider B
IsBlockDelta(event) == event.ok /\ event.kind = "ContentBlockDelta"

\* the Content event with the single block of a delta
BlockDeltaEvent(event) ==
    [type |-> "content",
     content |-> << [type |-> event.delta_type, text |-> event.text] >>]

\* the events the deltas among a sequence of native events are to produce
RECURSIVE DeltaEventsOf(_)
DeltaEventsOf(events) ==
    IF events = << >> THEN << >>
    ELSE (IF IsBlockDelta(Head(events)) THEN << BlockDeltaEvent(Head(events)) >> ELSE << >>)
         \o DeltaEventsOf(Tail(events))

\* a published event of the shape a delta produces: one block that is not of
\* a type the initial content of a message has
OfDeltaShape(ev) ==
    /\ ev.type = "content"
    /\ Len(ev.content) = 1
    /\ ev.content[1].type \in { "text_delta", "input_json_delta" }

\* the delta events published so far are those of the deltas handled, in order
DeltasInOrder ==
    pc \in { "next_gemini", "send_message_start", "send_block_delta", "send_usage",
             "error_gemini", "done", "end" } /\ ClosePositions # { } =>
        SelectSeq(AnswerEvents, OfDeltaShape)
          = DeltaEventsOf(IF pc = "send_block_delta" THEN HandledB ELSE ReadB)

BlockDeltaSteps ==
    /\ (ReadsEventB /\ IsBlockDelta(streamB[posB + 1])) =>
          pc' = "send_block_delta" /\ published' = published
    /\ pc = "send_block_delta" =>
          /\ IsBlockDelta(streamB[posB])
          /\ posB' = posB
          /\ \/ pc' = pc /\ published' = published
             \/ /\ pc' = "next_gemini"
                /\ published' = Append(published, BlockDeltaEvent(streamB[posB]))

\* C21: in AnswerRelay each 'incremental content delta' event of Provider B
\* produces exactly one Content event holding a single block whose type and
\* text are the delta's type and text, and these events are published in the
\* order in which the deltas arrive.
C21_OneEventPerBlockDelta == []DeltasInOrder /\ [][BlockDeltaSteps]_vars

\* two deltas of different types were handled and published in their order
C21_Witness ==
    /\ pc = "next_gemini"
    /\ posB >= 2
    /\ Len(SelectSeq(AnswerEvents, OfDeltaShape)) = 2
    /\ SelectSeq(AnswerEvents, OfDeltaShape)[1].content[1].type = "input_json_delta"
    /\ SelectSeq(AnswerEvents, OfDeltaShape)[2].content[1].type = "text_delta"

\* a native event of Provider B that is to be ignored: a kind other than the
\* three that are translated, or a 'message finished' event without usage
Ignored(event) ==
    /\ event.ok
    /\ \/ event.kind \notin { "MessageStart", "ContentBlockDelta", "MessageDelta" }
       \/ event.kind = "MessageDelta" /\ ~event.usage.some

IgnoredSteps ==
    (ReadsEventB /\ Ignored(streamB[posB + 1])) =>
        /\ published' = published
        /\ queue' = queue
        /\ pc' = "next_gemini"
        /\ cur' = None
        /\ deepseek_usage' = deepseek_usage
        /\ complete_reasoning' = complete_reasoning
        /\ gemini_messages' = gemini_messages
        /\ callsA' = callsA
        /\ callsB' = callsB

\* C22: in AnswerRelay a native event of Provider B that is none of 'message
\* started', 'content delta' or 'message finished', and a 'message finished'
\* event that carries no usage, publish no event and leave the orchestrator's
\* state (recorded Provider A usage, phase) unchanged; the loop continues with
\* the next event of Provider B.
C22_IgnoredEvents == [][IgnoredSteps]_vars

\* an event of another kind and a 'message finished' event without usage were
\* read, a delta after them was relayed, and the run ended with Done
C22_Witness ==
    /\ pc = "end"
    /\ posB = 3
    /\ \E i, j \in 1..2 :
          /\ streamB[i] = OtherEvent
          /\ streamB[j] = MessageDelta(None)
    /\ IsBlockDelta(streamB[3])
    /\ AnswerEvents = << BlockDeltaEvent(streamB[3]), [type |-> "done"] >>

\* the item read last from Provider B is an error
AnswerErrorRead == posB >= 1 /\ ~streamB[posB].ok

\* everything published before Provider B's error was read
BeforeAnswerError ==
    ReasoningEvents \o << ThinkingCloseEvent >>
    \o ExpectedAnswer(SubSeq(streamB, 1, posB - 1), deepseek_usage)

AnswerErrorIsLast ==
    AnswerErrorRead =>
        /\ pc \in { "error_gemini", "end" }
        /\ Positions(published, "done") = { }
        /\ pc = "error_gemini" => published = BeforeAnswerError
        /\ pc = "end" =>
             published = BeforeAnswerError
                         \o << [type |-> "error", message |-> streamB[posB].message,
                                code |-> 500] >>

AnswerErrorStops ==
    AnswerErrorRead => (posB' = posB /\ posA' = posA /\ IsPrefix(published, published'))

\* C23: when Provider B's stream yields an error in AnswerRelay the producer
\* publishes exactly one Error event, of code 500, as its last event and reads
\* nothing further from Provider B; the events published before (Start, the
\* thinking markers, the reasoning deltas, earlier Provider B content or Usage)
\* stay published and Done is never published.
C23_AnswerError == []AnswerErrorIsLast /\ [][AnswerErrorStops]_vars

\* Provider B failed at its third item after a content event and a Usage event,
\* and the run has ended
C23_Witness ==
    /\ AnswerErrorRead
    /\ pc = "end"
    /\ posB = 3
    /\ Positions(published, "usage") # { }
    /\ Last(published).type = "error"
    /\ Len(AnswerEvents) = 3

\* a send has failed because the receiver is gone
SendFailed == lastSend = "closed"

StopsAfterFailedSend ==
    SendFailed => (posA' = posA /\ posB' = posB /\ callsB' = callsB)

\* C24: when a publish fails because the queue is closed (the consumer has
\* disappeared) the producer task stops: after the failed send it reads no
\* further chunk from Provider A, does not open Provider B's stream and reads
\* no further event from Provider B.
C24_StopsWhenQueueClosed == [][StopsAfterFailedSend]_vars

\* the producer task has been spawned and has not ended
TaskRunning == pc \notin { "idle", "end", "panicked" }

\* C25: with finite provider streams the producer task always terminates:
\* under fair scheduling it reaches its end, after Done or after Error, when
\* the consumer keeps draining the queue and when the consumer disappears at
\* any point, also while the queue is full and the producer is suspended in a
\* send; it never blocks for ever on the queue.
C25_TaskTerminates == TaskRunning ~> (pc = "end")

\* the task has ended although the consumer took nothing and more events were
\* published than the queue holds: it was suspended on the full queue when the
\* consumer disappeared
C25_Witness ==
    /\ pc = "end"
    /\ rx = "dropped"
    /\ received = << >>
    /\ Len(published) > Capacity

\* the chunks of Provider A before the one read last
BeforeLastA == SubSeq(streamA, 1, posA - 1)

\* the usage the chunks before the last one leave recorded
UsageBeforeLastA ==
    IF UsageChunks(BeforeLastA) = { } THEN None
    ELSE BeforeLastA[MaxOf(UsageChunks(BeforeLastA))].usage

\* Provider B's stream up to its first error, and that error
ErrorsB == { i \in 1..Len(streamB) : ~streamB[i].ok }

UpToErrorB ==
    IF ErrorsB = { } THEN streamB ELSE SubSeq(streamB, 1, MinOf(ErrorsB) - 1)

\* the events of the whole run once the reasoning phase has ended at the chunk
\* read last: they depend on the chunks before it and on Provider B alone
RunAfterExit ==
    << [type |-> "start"], ThinkingOpenEvent >>
    \o ExpectedReasoning(BeforeLastA)
    \o << ThinkingCloseEvent >>
    \o ExpectedAnswer(UpToErrorB, UsageBeforeLastA)
    \o (IF ErrorsB = { } THEN << [type |-> "done"] >>
        ELSE << [type |-> "error", message |-> streamB[MinOf(ErrorsB)].message,
                 code |-> 500] >>)

LaterItemsUnread ==
    AbsentRead =>
        /\ deepseek_usage = UsageBeforeLastA
        /\ IsPrefix(published, RunAfterExit)
        /\ pc = "end" => published = RunAfterExit

RunCompleted == pc = "end" /\ published = RunAfterExit

\* C26: after ReasoningRelay exits on a chunk whose reasoning delta is absent
\* no further item of Provider A's stream is ever read: an error, a reasoning
\* delta or a usage record that Provider A would yield later has no effect on
\* the events published, and the stream still proceeds to the closing thinking
\* marker, Provider B and Done (Error, when Provider B's stream fails).
C26_LaterItemsIgnored ==
    /\ []LaterItemsUnread
    /\ [][AbsentRead => UNCHANGED posA]_vars
    /\ (AbsentRead ~> RunCompleted)

\* the reasoning phase ended on a chunk with absent reasoning delta that an
\* error item follows, and the run has ended with Done
C26_Witness ==
    /\ AbsentRead
    /\ posA < Len(streamA)
    /\ ~streamA[posA + 1].ok
    /\ pc = "end"
    /\ Last(published) = [type |-> "done"]
    /\ Positions(published, "error") = { }

\* the first loop of the task is over and Provider A yielded no error
ReasoningEndedOk ==
    /\ request.stream
    /\ pc \in { "next_gemini", "send_message_start", "send_block_delta", "send_usage",
                "error_gemini", "done", "end", "panicked" }
    /\ ~ReasoningErrorRead

\* no reasoning delta was shown: Provider A's stream was empty, or had no
\* non-empty delta before the loop ended
NoDeltaShown == ExpectedReasoning(ReadA) = << >>

EmptyWrapper == [role |-> "Assistant", content |-> "<thinking>\n\n</thinking>"]

\* the non-streaming request whose Provider A response carries no reasoning
ChatWithoutReasoning ==
    /\ ~request.stream
    /\ hpc = "responded"
    /\ ValidRequest(request)
    /\ respA.ok
    /\ ~chat_reasoning_content(respA).some

OpensProviderBAnyway ==
    /\ ReasoningEndedOk =>
          /\ callsB = 1
          /\ gemini_messages.some
          /\ Positions(published, "error") # { } => AnswerErrorRead
          /\ NoDeltaShown =>
                /\ gemini_messages.val = request.messages \o << EmptyWrapper >>
                /\ SubSeq(published, 1, 3)
                     = << [type |-> "start"], ThinkingOpenEvent, ThinkingCloseEvent >>
    /\ ChatWithoutReasoning =>
          /\ callsB = 0
          /\ ~result.val.ok
          /\ result.val.error.type = "DeepSeekError"

\* C27: in the streaming path Provider B's stream is opened whenever
\* ReasoningRelay ends without an error of Provider A, even when no reasoning
\* delta was ever received (Provider A's stream is empty or its first chunk has
\* no reasoning delta): the appended Assistant message is then the empty wrapper
\* "<thinking>\n\n</thinking>", the two thinking markers are published next to
\* each other, and no Error event is produced for it; the non-streaming path
\* fails when the reasoning is missing.
C27_StreamingWithoutReasoning ==
    /\ []OpensProviderBAnyway
    /\ ((pc = "thinking_close") ~> (callsB = 1))

\* Provider A's first chunk had no reasoning delta and the run has ended with
\* Done after Provider B was given the empty wrapper
C27_Witness ==
    /\ AbsentRead
    /\ posA = 1
    /\ pc = "end"
    /\ Last(gemini_messages.val) = EmptyWrapper
    /\ published[2] = ThinkingOpenEvent
    /\ published[3] = ThinkingCloseEvent
    /\ Last(published) = [type |-> "done"]
====
